---- MODULE Spec2Model ----
(***************************************************************************)
(* TextQuest: retrieval-augmented question answering over an uploaded      *)
(* textbook.  The module models                                            *)
(*   - the index cache of modules/retriever.py (load_or_build_faiss),      *)
(*   - the question-paper parser of modules/parser.py,                     *)
(*   - the answering loop of modules/answer_generator.py,                  *)
(*   - the page extraction of modules/retriever.py (extract_text_data),    *)
(*   - the marks heuristic of modules/parser.py (estimate_marks),          *)
(*   - the answer rendering of app.py and modules/utils.py (render_answer),*)
(*   - the session of app.py: the script that Streamlit reruns.            *)
(* Each part has its own specification (SpecCache, SpecParse, SpecAnswers, *)
(* SpecIngest, SpecMarks, SpecRender, SpecSession) over its own variables;  *)
(* the variables of the other parts stay fixed.                            *)
(***************************************************************************)
EXTENDS Integers, Sequences, FiniteSets, TLC

VARIABLES
    \* ---- index cache (retriever.py) ----
    fs,          \* the cache directory FAISS_DIR: path -> artifact
    pc,          \* per caller: position inside load_or_build_faiss
    file,        \* per caller: the document bytes passed as `file`
    path,        \* per caller: "none" | "hit" | "miss" (branch of line 45)
    did,         \* per caller: work done in the current call
    wrote,       \* per caller: paths written in the current call
    result,      \* per caller: the returned vectordb (0 = none)
    failedAt,    \* per caller: the step at which the call raised
    calls,       \* number of calls started so far
    docsSeen,    \* number of distinct documents passed so far
    built,       \* per document: a cache-miss build has completed
    afterBuilt,  \* per caller: the call started after a completed build
    raced,       \* per document: two cache-miss builds of it overlapped
    touched,     \* per document: some call wrote one of its artifacts
    disturbed,   \* per caller: another caller wrote its paths since its check
    \* ---- question-paper parser (parser.py) ----
    documents,            \* the argument: a list of documents (lists of lines)
    documents0,           \* the argument as it was passed
    docIdx,               \* the document the outer loop is at
    lines,                \* the normalized, non-empty lines of that document
    i,                    \* the line the scan is at (1-based)
    current_part,         \* None is <<>>
    current_section,      \* None is <<>>
    structured_questions, \* ordered dict: part -> ordered dict: section -> list
    section_marks_info,   \* dict: section name -> captured marks line
    part_marks,           \* dict: part -> set of mark values
    ppc,                  \* "scan" | "post" | "returned" | "raised"
    parsed,               \* the returned categorized_questions
    run,                  \* 1 or 2: which call of the parser this is
    first,                \* the outcome of the first call
    \* ---- answering loop (answer_generator.py) ----
    ga_in,       \* the argument structured_questions
    ga_out,      \* structured_answers
    ga_pc,       \* "idle" | "run" | "returned" | "raised"
    gaP,         \* the part the outer loop is at (0 before the first)
    gaS,         \* the section the middle loop is at (0 before the first)
    gaQ,         \* the number of questions of that section already handled
    chain_log,   \* the calls of qa_chain so far: input, prompt and outcome
    \* ---- page extraction (retriever.py, extract_text_data) ----
    pdf,         \* the argument: is it a readable PDF, the texts of its pages
    ing_i,       \* the number of pages the loop has enumerated
    ing_docs,    \* documents
    ing_pc,      \* "idle" | "open" | "loop" | "returned" | "raised"
    \* ---- marks heuristic (parser.py, estimate_marks) ----
    em_text,      \* the argument section_text
    em_result,    \* the returned value (0 before the return)
    em_pc,        \* "idle" | "call" | "returned"
    \* ---- answer rendering (app.py and utils.py, render_answer) ----
    ra_answer,    \* the argument, as answer.splitlines()
    ra_emitted,   \* the display calls made, in order
    ra_pc,        \* "idle" | "call" | "returned"
    \* ---- app session (app.py, the script from line 166 on) ----
    session_state, \* st.session_state: chat_history, processed_question_hashes,
                   \* vectordb (0 = the key is absent)
    widgets,       \* the values the widgets return in the current run
    script,        \* the run of the script: position, qa_chain, loop index
    reruns         \* number of runs of the script started so far

cacheVars == <<fs, pc, file, path, did, wrote, result, failedAt, calls, docsSeen,
               built, afterBuilt, raced, touched, disturbed>>

parseVars == <<documents, documents0, docIdx, lines, i, current_part, current_section,
               structured_questions, section_marks_info, part_marks, ppc,
               parsed, run, first>>

ansVars == <<ga_in, ga_out, ga_pc, gaP, gaS, gaQ, chain_log>>

ingVars == <<pdf, ing_i, ing_docs, ing_pc>>

emVars == <<em_text, em_result, em_pc>>

raVars == <<ra_answer, ra_emitted, ra_pc>>

ssVars == <<session_state, widgets, script, reruns>>

vars == <<cacheVars, parseVars, ansVars, ingVars, emVars, raVars, ssVars>>

\* The parser is not running.
ParseIdle ==
    /\ documents = <<>> /\ documents0 = <<>> /\ docIdx = 0 /\ i = 0
    /\ lines = <<>>
    /\ current_part = <<>> /\ current_section = <<>>
    /\ structured_questions = <<>> /\ section_marks_info = <<>>
    /\ part_marks = <<>> /\ ppc = "idle" /\ parsed = <<>> /\ run = 0
    /\ first = <<>>

\* generate_answers is not running.
AnswersIdle ==
    /\ ga_in = <<>> /\ ga_out = <<>> /\ ga_pc = "idle"
    /\ gaP = 0 /\ gaS = 0 /\ gaQ = 0 /\ chain_log = <<>>

\* extract_text_data is not running.
IngestIdle ==
    /\ pdf = [readable |-> FALSE, pages |-> <<>>] /\ ing_i = 0 /\ ing_docs = <<>> /\ ing_pc = "idle"

\* estimate_marks is not running.
MarksIdle ==
    /\ em_text = <<>> /\ em_result = 0 /\ em_pc = "idle"

\* render_answer is not running.
RenderIdle ==
    /\ ra_answer = <<>> /\ ra_emitted = <<>> /\ ra_pc = "idle"

\* No session of the app is open.
SessionIdle ==
    /\ session_state = <<>> /\ widgets = <<>> /\ script = <<>> /\ reruns = 0

\* A step of the index cache leaves the other parts alone.
CacheFrame == UNCHANGED <<parseVars, ansVars, ingVars, emVars, raVars, ssVars>>

(***************************************************************************)
(* Bounds                                                                  *)
(***************************************************************************)
NumProcs == 2
NumDocs == 2
MaxCalls == 3
MaxLines == 4
MaxLinesTwice == 3
MaxNodes == 6
MaxPages == 3
MaxHintLen == 3
MaxAnswerLines == 3
MaxQuestions == 2
MaxReruns == 3

Procs == 1..NumProcs
Docs == 1..NumDocs

(***************************************************************************)
(* Index cache: modules/retriever.py                                       *)
(***************************************************************************)

\* hashlib.md5(bytes).hexdigest(): a digest of the bytes (collision free on
\* the documents of the model).
compute_file_hash(d) == <<"md5", d>>

Hashes == {compute_file_hash(d) : d \in Docs}

\* (index_path, store_path) of a fingerprint.
get_faiss_paths(h) == <<<<h, "faiss">>, <<h, "pkl">>>>

Paths == {get_faiss_paths(h)[1] : h \in Hashes} \cup
         {get_faiss_paths(h)[2] : h \in Hashes}

Absent == [st |-> "absent", kind |-> "none", of |-> 0]

\* os.path.exists(p)
exists(p) == fs[p].st # "absent"

\* The mutated hit test: os.path.isfile on index_path, which save_local
\* creates as a directory.
HitSignalIsFile(h) ==
    /\ exists(get_faiss_paths(h)[1]) /\ fs[get_faiss_paths(h)[1]].kind = "file"
    /\ exists(get_faiss_paths(h)[2])

\* line 45: os.path.exists(index_path) and os.path.exists(store_path)
HitSignal(h) ==
    /\ exists(get_faiss_paths(h)[1])
    /\ exists(get_faiss_paths(h)[2])

Complete(p) == fs[p].st = "complete"

\* The cache directory is empty and no call is running.
CacheIdle ==
    /\ fs = [p \in Paths |-> Absent]
    /\ pc = [p \in Procs |-> "idle"]
    /\ file = [p \in Procs |-> 1]
    /\ path = [p \in Procs |-> "none"]
    /\ did = [p \in Procs |-> {}]
    /\ wrote = [p \in Procs |-> {}]
    /\ result = [p \in Procs |-> 0]
    /\ failedAt = [p \in Procs |-> "none"]
    /\ calls = 0
    /\ docsSeen = 0
    /\ built = [d \in Docs |-> FALSE]
    /\ afterBuilt = [p \in Procs |-> FALSE]
    /\ raced = [d \in Docs |-> FALSE]
    /\ touched = [d \in Docs |-> FALSE]
    /\ disturbed = [p \in Procs |-> FALSE]

InitCache ==
    /\ SessionIdle
    /\ RenderIdle
    /\ CacheIdle
    /\ ParseIdle
    /\ AnswersIdle
    /\ IngestIdle
    /\ MarksIdle

hashOf(p) == compute_file_hash(file[p])
index_path(p) == get_faiss_paths(hashOf(p))[1]
store_path(p) == get_faiss_paths(hashOf(p))[2]

\* A caller that has made its existence check on the same fingerprint as p
\* has its view of the cache changed by p's writes.
Disturb(p) ==
    [q \in Procs |->
        IF q # p /\ file[q] = file[p] /\ path[q] # "none"
        THEN TRUE ELSE disturbed[q]]

\* A write of caller p to one of its two paths.
WriteFs(p, pth, art) ==
    /\ fs' = [fs EXCEPT ![pth] = art]
    /\ wrote' = [wrote EXCEPT ![p] = @ \cup {pth}]
    /\ touched' = [touched EXCEPT ![file[p]] = TRUE]
    /\ disturbed' = Disturb(p)
    /\ UNCHANGED raced

\* load_or_build_faiss(file, file_hash) is entered; the app passes the hash
\* of the same bytes (app.py 180-181).  Documents are interchangeable: they
\* are numbered in the order of their first call.
Call(p, d) ==
    /\ CacheFrame
    /\ pc[p] \in {"idle", "done", "failed"}
    /\ calls < MaxCalls
    /\ d <= docsSeen + 1
    /\ docsSeen' = IF d > docsSeen THEN d ELSE docsSeen
    /\ calls' = calls + 1
    /\ pc' = [pc EXCEPT ![p] = "check"]
    /\ file' = [file EXCEPT ![p] = d]
    /\ path' = [path EXCEPT ![p] = "none"]
    /\ did' = [did EXCEPT ![p] = {}]
    /\ wrote' = [wrote EXCEPT ![p] = {}]
    /\ result' = [result EXCEPT ![p] = 0]
    /\ failedAt' = [failedAt EXCEPT ![p] = "none"]
    /\ afterBuilt' = [afterBuilt EXCEPT ![p] = built[d]]
    /\ disturbed' = [disturbed EXCEPT ![p] = FALSE]
    /\ UNCHANGED <<fs, built, raced, touched>>

BuildSteps == {"extract", "split", "embed", "save", "saving", "open_store", "dump"}

\* line 45
Check(p) ==
    /\ CacheFrame
    /\ pc[p] = "check"
    /\ IF HitSignal(hashOf(p))
       THEN /\ path' = [path EXCEPT ![p] = "hit"]
            /\ pc' = [pc EXCEPT ![p] = "load_store"]
            /\ UNCHANGED raced
       ELSE /\ path' = [path EXCEPT ![p] = "miss"]
            /\ pc' = [pc EXCEPT ![p] = "extract"]
            /\ raced' = [raced EXCEPT ![file[p]] =
                            @ \/ \E q \in Procs : /\ q # p
                                                  /\ file[q] = file[p]
                                                  /\ pc[q] \in BuildSteps]
    /\ UNCHANGED <<fs, file, did, wrote, result, failedAt, calls, docsSeen, built,
                   afterBuilt, touched, disturbed>>

\* lines 46-47: pickle.load of the store file; a truncated pickle raises.
LoadStore(p) ==
    /\ CacheFrame
    /\ pc[p] = "load_store"
    /\ IF Complete(store_path(p))
       THEN /\ pc' = [pc EXCEPT ![p] = "load_index"]
            /\ UNCHANGED failedAt
       ELSE /\ pc' = [pc EXCEPT ![p] = "failed"]
            /\ failedAt' = [failedAt EXCEPT ![p] = "load_store"]
    /\ UNCHANGED <<fs, file, path, did, wrote, result, calls, docsSeen, built,
                   afterBuilt, raced, touched, disturbed>>

\* line 48 and line 60: FAISS.load_local of the index directory, returned.
LoadIndex(p) ==
    /\ CacheFrame
    /\ pc[p] = "load_index"
    /\ IF Complete(index_path(p))
       THEN /\ pc' = [pc EXCEPT ![p] = "done"]
            /\ result' = [result EXCEPT ![p] = fs[index_path(p)].of]
            /\ UNCHANGED failedAt
       ELSE /\ pc' = [pc EXCEPT ![p] = "failed"]
            /\ failedAt' = [failedAt EXCEPT ![p] = "load_index"]
            /\ UNCHANGED result
    /\ UNCHANGED <<fs, file, path, did, wrote, calls, docsSeen, built,
                   afterBuilt, raced, touched, disturbed>>

\* line 50: extract_text_data(file)
Extract(p) ==
    /\ CacheFrame
    /\ pc[p] = "extract"
    /\ pc' = [pc EXCEPT ![p] = "split"]
    /\ did' = [did EXCEPT ![p] = @ \cup {"ingest"}]
    /\ UNCHANGED <<fs, file, path, wrote, result, failedAt, calls, docsSeen, built,
                   afterBuilt, raced, touched, disturbed>>

\* The mutated build: the index directory is created before the fragments
\* are embedded.
SplitMkdirFirst(p) ==
    /\ CacheFrame
    /\ pc[p] = "split"
    /\ pc' = [pc EXCEPT ![p] = "embed"]
    /\ did' = [did EXCEPT ![p] = @ \cup {"split"}]
    /\ WriteFs(p, index_path(p), [st |-> "partial", kind |-> "dir", of |-> 0])
    /\ UNCHANGED <<file, path, result, failedAt, calls, docsSeen, built, afterBuilt>>

\* lines 51-52: splitter.split_documents(docs)
Split(p) ==
    /\ CacheFrame
    /\ pc[p] = "split"
    /\ pc' = [pc EXCEPT ![p] = "embed"]
    /\ did' = [did EXCEPT ![p] = @ \cup {"split"}]
    /\ UNCHANGED <<fs, file, path, wrote, result, failedAt, calls, docsSeen, built,
                   afterBuilt, raced, touched, disturbed>>

\* lines 54-55: FAISS.from_documents(chunks, embeddings) embeds every
\* fragment and builds the index in memory.
Embed(p) ==
    /\ CacheFrame
    /\ pc[p] = "embed"
    /\ pc' = [pc EXCEPT ![p] = "save"]
    /\ did' = [did EXCEPT ![p] = @ \cup {"embed"}]
    /\ UNCHANGED <<fs, file, path, wrote, result, failedAt, calls, docsSeen, built,
                   afterBuilt, raced, touched, disturbed>>

\* line 56, first half: save_local creates the directory index_path and
\* starts writing the index into it.
SaveBegin(p) ==
    /\ CacheFrame
    /\ pc[p] = "save"
    /\ pc' = [pc EXCEPT ![p] = "saving"]
    /\ WriteFs(p, index_path(p), [st |-> "partial", kind |-> "dir", of |-> 0])
    /\ UNCHANGED <<file, path, did, result, failedAt, calls, docsSeen, built, afterBuilt>>

\* line 56, second half: the index files are completely written.
SaveEnd(p) ==
    /\ CacheFrame
    /\ pc[p] = "saving"
    /\ pc' = [pc EXCEPT ![p] = "open_store"]
    /\ WriteFs(p, index_path(p),
               [st |-> "complete", kind |-> "dir", of |-> file[p]])
    /\ UNCHANGED <<file, path, did, result, failedAt, calls, docsSeen, built, afterBuilt>>

\* line 57: open(store_path, "wb") creates or truncates the store file.
OpenStore(p) ==
    /\ CacheFrame
    /\ pc[p] = "open_store"
    /\ pc' = [pc EXCEPT ![p] = "dump"]
    /\ WriteFs(p, store_path(p), [st |-> "partial", kind |-> "file", of |-> 0])
    /\ UNCHANGED <<file, path, did, result, failedAt, calls, docsSeen, built, afterBuilt>>

\* lines 58-60: pickle.dump completes, the file is closed and the index built
\* in memory is returned.
DumpStore(p) ==
    /\ CacheFrame
    /\ pc[p] = "dump"
    /\ pc' = [pc EXCEPT ![p] = "done"]
    /\ result' = [result EXCEPT ![p] = file[p]]
    /\ built' = [built EXCEPT ![file[p]] = TRUE]
    /\ WriteFs(p, store_path(p),
               [st |-> "complete", kind |-> "file", of |-> file[p]])
    /\ UNCHANGED <<file, path, did, failedAt, calls, docsSeen, afterBuilt>>

\* A step of the build raises or the process is interrupted: unreadable
\* document (extract), embedding service unreachable (embed), write error or
\* crash (save .. dump).  The function has no handler: the exception
\* propagates and nothing is undone.
Fail(p) ==
    /\ CacheFrame
    /\ pc[p] \in BuildSteps
    /\ pc' = [pc EXCEPT ![p] = "failed"]
    /\ failedAt' = [failedAt EXCEPT ![p] = pc[p]]
    /\ UNCHANGED <<fs, file, path, did, wrote, result, calls, docsSeen, built,
                   afterBuilt, raced, touched, disturbed>>

NextCache ==
    \/ \E p \in Procs, d \in Docs : Call(p, d)
    \/ \E p \in Procs : Check(p)
    \/ \E p \in Procs : LoadStore(p)
    \/ \E p \in Procs : LoadIndex(p)
    \/ \E p \in Procs : Extract(p)
    \/ \E p \in Procs : Split(p)
    \/ \E p \in Procs : Embed(p)
    \/ \E p \in Procs : SaveBegin(p)
    \/ \E p \in Procs : SaveEnd(p)
    \/ \E p \in Procs : OpenStore(p)
    \/ \E p \in Procs : DumpStore(p)
    \/ \E p \in Procs : Fail(p)

SpecCache == InitCache /\ [][NextCache]_vars

(***************************************************************************)
(* Question-paper parser: modules/parser.py                                *)
(*                                                                         *)
(* A line is the sequence of its lexemes (words, numbers, punctuation); the*)
(* regular expressions of the parser are translated lexeme by lexeme, with *)
(* whitespace between lexemes.  A text of several lines is a sequence of   *)
(* lines ("\n" joins), and " " joins concatenate lexeme sequences.         *)
(***************************************************************************)

\* Decimal numerals, in order: int(t) is the position of t minus one.
Numerals == <<"0", "1", "2", "3", "4", "5", "6", "7", "8", "9", "10", "11",
              "12", "13", "14", "15">>

\* \d+
IsDigits(t) == \E j \in 1..Len(Numerals) : Numerals[j] = t

\* int(t)
int(t) == (CHOOSE j \in 1..Len(Numerals) : Numerals[j] = t) - 1

Punct == {"(", ")", ".", "?", "-", "\\u2013", "\\u2014", "*", "\\u00d7", ",", ":", "="}

\* [\w\d]+
IsWord(t) == t \notin Punct

\* re.IGNORECASE / str.upper / str.lower on the lexemes the model uses.
Upper(t) ==
    CASE t \in {"part", "Part"} -> "PART"
      [] t \in {"section", "Section"} -> "SECTION"
      [] t = "a" -> "A"
      [] t = "b" -> "B"
      [] OTHER -> t

Lower(t) ==
    CASE t \in {"PART", "Part"} -> "part"
      [] t \in {"SECTION", "Section"} -> "section"
      [] t \in {"Answer", "ANSWER"} -> "answer"
      [] t \in {"Marks", "MARKS"} -> "marks"
      [] t \in {"Mark", "MARK"} -> "mark"
      [] t = "A" -> "a"
      [] t = "B" -> "b"
      [] OTHER -> t

\* normalize_text: dash and quote variants are unified (whitespace runs are
\* already collapsed between lexemes).
normalize_tok(t) ==
    CASE t \in {"\\u2013", "\\u2014"} -> "-"
      [] t \in {"\\u201c", "\\u201d"} -> "\""
      [] t \in {"\\u2018", "\\u2019"} -> "'"
      [] OTHER -> t

normalize_text(line) == [j \in 1..Len(line) |-> normalize_tok(line[j])]

From(line, k) == SubSeq(line, k, Len(line))

\* The lexeme at position k, or "" past the end of the line.
At(line, k) == IF k >= 1 /\ k <= Len(line) THEN line[k] ELSE ""

Dashes == {"-", "\\u2013", "\\u2014"}

\* Position of the label of a heading "<word> [-] <label> ...", 0 if the line
\* is no such heading: ^WORD\s*[-..]?\s*([\w\d]+)
HeadingLabelPos(line, word) ==
    IF Len(line) >= 1 /\ Upper(line[1]) = word
    THEN IF At(line, 2) \in Dashes
         THEN IF At(line, 3) # "" /\ IsWord(At(line, 3)) THEN 3 ELSE 0
         ELSE IF At(line, 2) # "" /\ IsWord(At(line, 2)) THEN 2 ELSE 0
    ELSE 0

\* re.match(r'^PART\s*[-..]?\s*([\w\d]+)', line, re.IGNORECASE)
part_match(line) == HeadingLabelPos(line, "PART") # 0

part_label(line) == Upper(line[HeadingLabelPos(line, "PART")])

\* re.match(r'^SECTION\s*[-..]?\s*([\w\d]+)\s*(.*)', line, re.IGNORECASE)
section_match(line) == HeadingLabelPos(line, "SECTION") # 0

section_num(line) == line[HeadingLabelPos(line, "SECTION")]

Times == {"x", "\\u00d7", "*"}

\* Positions j where \d+\s*[x..*]\s*\d+ matches.
MultiplierAt(line) ==
    {j \in 1..Len(line) :
        /\ j + 2 <= Len(line)
        /\ IsDigits(line[j]) /\ line[j + 1] \in Times /\ IsDigits(line[j + 2])}

\* re.search(r'\d+\s*[x..*]\s*\d+', next_line)
HasMultiplier(line) == MultiplierAt(line) # {}

Min(S) == CHOOSE x \in S : \A y \in S : x <= y
Max(S) == CHOOSE x \in S : \A y \in S : x >= y

\* The values m of the loop of estimate_marks, in its order.
ExplicitMarks == <<1, 2, 3, 4, 5, 6, 8, 10>>

\* f"{m} mark" in section_text.lower(): a numeral whose digits end with those
\* of m, followed by a word that starts with "mark".
ContainsMark(line, m) ==
    \E j \in 1..Len(line) :
        /\ j + 1 <= Len(line)
        /\ IsDigits(line[j])
        /\ int(line[j]) % (IF m >= 10 THEN 100 ELSE 10) = m
        /\ Lower(line[j + 1]) \in {"mark", "marks"}

\* estimate_marks(section_text)
estimate_marks(section_text) ==
    IF HasMultiplier(section_text)
    THEN int(section_text[Min(MultiplierAt(section_text)) + 2])
    ELSE IF \E k \in 1..Len(ExplicitMarks) :
                ContainsMark(section_text, ExplicitMarks[k])
         THEN ExplicitMarks[Min({k \in 1..Len(ExplicitMarks) :
                                    ContainsMark(section_text, ExplicitMarks[k])})]
         ELSE 1

\* The prefixes of instruction_patterns, lower case, lexeme by lexeme; "*"
\* stands for one alphabetic word ([a-z]+).
instruction_patterns ==
    {<<"answer", "any">>, <<"answer", "the">>, <<"choose">>, <<"fill", "in">>,
     <<"rewrite">>, <<"rearrange">>, <<"punctuate">>, <<"report">>,
     <<"combine">>, <<"quote">>, <<"match", "the">>,
     <<"complete", "the", "following">>, <<"read", "the">>, <<"write", "*">>,
     <<"identify">>, <<"make", "notes">>, <<"paraphrase">>, <<"prepare">>,
     <<"each", "question", "carries">>, <<"attempt", "any">>,
     <<"section", "*", "carries">>}

\* is_instruction_line(line)
is_instruction_line(line) ==
    \E pat \in instruction_patterns :
        /\ Len(pat) <= Len(line)
        /\ \A j \in 1..Len(pat) :
              \/ pat[j] = "*" /\ IsWord(line[j])
              \/ pat[j] = Lower(line[j])

\* \d+[a-zA-Z]? : the numbering token of a question.
IsQNum(t) == IsDigits(t) \/ t \in {"1a", "2a", "3a", "12a"}

\* Position of the numbering token: 1, or 2 after an opening parenthesis;
\* 0 if the line does not start with one.
QNumPos(line) ==
    IF Len(line) >= 1 /\ IsQNum(line[1]) THEN 1
    ELSE IF Len(line) >= 2 /\ line[1] = "(" /\ IsQNum(line[2]) THEN 2
    ELSE 0

\* First lexeme of group 2 of ^(\(?\d+[a-zA-Z]?\)?)[\.\)]?\s*(.+) : the
\* optional ")" and "." / ")" are consumed greedily, as long as something is
\* left for (.+).
QRestPos(line) ==
    LET k == QNumPos(line)
        a == IF At(line, k + 1) = ")" THEN 1 ELSE 0
        b == IF At(line, k + 1 + a) \in {".", ")"} THEN 1 ELSE 0
    IN  IF k + 1 + a + b <= Len(line) THEN k + 1 + a + b
        ELSE IF k + 1 + a <= Len(line) THEN k + 1 + a
        ELSE k + 1

\* q_match = re.match(r'^(\(?\d+[a-zA-Z]?\)?)[\.\)]?\s*(.+)', line)
q_match(line) == QNumPos(line) # 0 /\ QRestPos(line) <= Len(line)

\* q_match.group(1).strip("().")
q_number(line) == line[QNumPos(line)]

\* q_match.group(2).strip()
q_text(line) == From(line, QRestPos(line))

OptionLetters == {"a", "b", "c", "d", "A", "B", "C", "D"}

\* re.match(r'^\(?([a-dA-D])\)?\s+.+', next_line)
option_match(line) ==
    LET k == IF At(line, 1) = "(" THEN 2 ELSE 1
        c == IF At(line, k + 1) = ")" THEN 1 ELSE 0
    IN  /\ At(line, k) \in OptionLetters
        /\ k + c + 1 <= Len(line)

\* ---- ordered dicts: sequences of [k, v] in insertion order ----
HasKey(d, k) == \E j \in 1..Len(d) : d[j].k = k

Get(d, k) == d[CHOOSE j \in 1..Len(d) : d[j].k = k].v

\* d.get(k, default)
GetOr(d, k, default) == IF HasKey(d, k) THEN Get(d, k) ELSE default

\* d[k] = v : an existing key keeps its place, a new key goes last.
Put(d, k, v) ==
    IF HasKey(d, k)
    THEN [j \in 1..Len(d) |-> IF d[j].k = k THEN [k |-> k, v |-> v] ELSE d[j]]
    ELSE Append(d, [k |-> k, v |-> v])

None == <<>>
General == <<"General">>

\* ---- the inputs of the model ----
PageBreak == <<"\f">>

\* The lines a question paper is made of.
LineAlphabet ==
    {<<"PART", "A">>,
     <<"PART", "\\u2013", "B">>,
     <<"SECTION", "1">>,
     <<"SECTION", "1", "(", "5", "x", "2", "marks", ")">>,
     <<"5", "x", "2">>,
     <<"5", "x", "0">>,
     <<"1", ".", "What", "is", "X", "?">>,
     <<"2", ".", "What", "is", "Y", "?", "(", "a", ")", "foo", "(", "b", ")", "bar">>,
     <<"(", "a", ")", "foo">>,
     <<"Answer", "any", "five">>,
     <<"in", "detail">>}

SeqsUpTo(S, n) == UNION {[1..m -> S] : m \in 0..n}

\* A flat sequence of lines and page breaks, cut into its pages.
RECURSIVE SplitPages(_)
SplitPages(flat) ==
    IF \A j \in 1..Len(flat) : flat[j] # PageBreak
    THEN <<flat>>
    ELSE LET b == Min({j \in 1..Len(flat) : flat[j] = PageBreak})
         IN  <<SubSeq(flat, 1, b - 1)>> \o SplitPages(SubSeq(flat, b + 1, Len(flat)))

\* lines 14-15: the normalized, non-empty lines of a document.
LinesOf(doc) ==
    SelectSeq([j \in 1..Len(doc) |-> normalize_text(doc[j])],
              LAMBDA l : l # <<>>)

\* The locals of parse_question_structure at its start (lines 7-11).
ParseStart ==
    /\ docIdx' = 1
    /\ lines' = IF documents = <<>> THEN <<>> ELSE LinesOf(documents[1])
    /\ i' = 1
    /\ current_part' = None
    /\ current_section' = None
    /\ structured_questions' = <<>>
    /\ section_marks_info' = <<>>
    /\ part_marks' = <<>>
    /\ parsed' = <<>>
    /\ ppc' = "scan"

\* A step of the parser leaves the other parts alone.
ParseFrame == UNCHANGED <<cacheVars, ansVars, ingVars, emVars, raVars, ssVars>>

\* The loop is at a line of the current document.
AtLine == ppc = "scan" /\ docIdx <= Len(documents) /\ i <= Len(lines)

line == lines[i]

\* lines 33-38: the line after the current one, when it holds a multiplier,
\* is taken as the marks line and skipped.
SkipsNext == i + 1 <= Len(lines) /\ HasMultiplier(lines[i + 1])

marks_info == IF SkipsNext THEN lines[i + 1] ELSE <<>>

\* i after line 38
iSkip == IF SkipsNext THEN i + 1 ELSE i

\* lines 51-56: the fallback section.
Fallback == current_part # None /\ current_section = None

FallbackCreates == Fallback /\ ~HasKey(Get(structured_questions, current_part), General)

sectionFb == IF Fallback THEN General ELSE current_section

questionsFb ==
    IF FallbackCreates
    THEN Put(structured_questions, current_part,
             Put(Get(structured_questions, current_part), General, <<>>))
    ELSE structured_questions

marksInfoFb ==
    IF FallbackCreates THEN Put(section_marks_info, General, <<>>)
    ELSE section_marks_info

\* The mutated loop head: the normalized lines are written back into the
\* document.
P_NextDocInPlace ==
    /\ ParseFrame
    /\ ppc = "scan"
    /\ docIdx <= Len(documents) => i > Len(lines)
    /\ IF docIdx < Len(documents)
       THEN /\ docIdx' = docIdx + 1
            /\ lines' = LinesOf(documents[docIdx + 1])
            /\ i' = 1
            /\ ppc' = "scan"
       ELSE /\ ppc' = "post"
            /\ UNCHANGED <<docIdx, lines, i>>
    /\ documents' = [k \in 1..Len(documents) |->
                        IF k = docIdx THEN lines ELSE documents[k]]
    /\ UNCHANGED <<documents0, current_part, current_section,
                   structured_questions, section_marks_info, part_marks,
                   parsed, run, first>>

\* lines 13-18: the lines of a document are exhausted; the outer loop goes to
\* the next document, or to the post-pass after the last one.
P_NextDoc ==
    /\ ParseFrame
    /\ ppc = "scan"
    /\ docIdx <= Len(documents) => i > Len(lines)
    /\ IF docIdx < Len(documents)
       THEN /\ docIdx' = docIdx + 1
            /\ lines' = LinesOf(documents[docIdx + 1])
            /\ i' = 1
            /\ ppc' = "scan"
       ELSE /\ ppc' = "post"
            /\ UNCHANGED <<docIdx, lines, i>>
    /\ UNCHANGED <<documents, documents0, current_part, current_section,
                   structured_questions, section_marks_info, part_marks,
                   parsed, run, first>>

\* lines 21-29: a PART header.
P_Part ==
    /\ ParseFrame
    /\ AtLine
    /\ part_match(line)
    /\ current_part' = <<"Part", part_label(line)>>
    /\ structured_questions' = Put(structured_questions, current_part', <<>>)
    /\ part_marks' = Put(part_marks, current_part', {})
    /\ current_section' = None
    /\ i' = i + 1
    /\ UNCHANGED <<documents, documents0, docIdx, lines, section_marks_info, ppc,
                   parsed, run, first>>

\* lines 31-49: a SECTION header.
P_Section ==
    /\ ParseFrame
    /\ AtLine
    /\ ~part_match(line)
    /\ section_match(line)
    /\ current_section' = <<"Section", section_num(line)>>
    /\ IF current_part # None
       THEN /\ structured_questions' =
                   Put(structured_questions, current_part,
                       Put(Get(structured_questions, current_part),
                           current_section', <<>>))
            /\ section_marks_info' =
                   Put(section_marks_info, current_section', marks_info)
       ELSE UNCHANGED <<structured_questions, section_marks_info>>
    /\ i' = iSkip + 1
    /\ UNCHANGED <<documents, documents0, docIdx, lines, current_part, part_marks,
                   ppc, parsed, run, first>>

\* lines 31-38, 51-61: an instruction line is skipped.
P_Instruction ==
    /\ ParseFrame
    /\ AtLine
    /\ ~part_match(line)
    /\ ~section_match(line)
    /\ is_instruction_line(line)
    /\ current_section' = sectionFb
    /\ structured_questions' = questionsFb
    /\ section_marks_info' = marksInfoFb
    /\ i' = iSkip + 1
    /\ UNCHANGED <<documents, documents0, docIdx, lines, current_part, part_marks,
                   ppc, parsed, run, first>>

\* lines 74-81: the number of option lines that directly follow line k.
RECURSIVE OptionRun(_)
OptionRun(k) ==
    IF k + 1 <= Len(lines) /\ option_match(lines[k + 1])
    THEN 1 + OptionRun(k + 1)
    ELSE 0

\* lines 70-86: options, is_mcq and the question text of the current line.
options == SubSeq(lines, iSkip + 1, iSkip + OptionRun(iSkip))

is_mcq == OptionRun(iSkip) > 0

question ==
    IF is_mcq THEN <<q_text(line)>> \o <<<<"Options:">>>> \o options
    ELSE <<q_text(line)>>

\* line 88
marks == estimate_marks(GetOr(marksInfoFb, sectionFb, <<>>))

\* lines 94-99
question_data ==
    [number |-> q_number(line), question |-> question, marks |-> marks,
     is_mcq |-> is_mcq]

\* line 100 raises KeyError unless both keys are present.
CanStore ==
    /\ HasKey(questionsFb, current_part)
    /\ HasKey(Get(questionsFb, current_part), sectionFb)

\* lines 31-38, 51-57, 63-102: a question line.
P_Question ==
    /\ ParseFrame
    /\ AtLine
    /\ ~part_match(line)
    /\ ~section_match(line)
    /\ ~is_instruction_line(line)
    /\ q_match(line)
    /\ IF CanStore
       THEN /\ structured_questions' =
                   Put(questionsFb, current_part,
                       Put(Get(questionsFb, current_part), sectionFb,
                           Append(Get(Get(questionsFb, current_part), sectionFb),
                                  question_data)))
            /\ part_marks' = Put(part_marks, current_part,
                                 Get(part_marks, current_part) \cup {marks})
            /\ current_section' = sectionFb
            /\ section_marks_info' = marksInfoFb
            /\ i' = iSkip + OptionRun(iSkip) + 1
            /\ UNCHANGED ppc
       ELSE /\ ppc' = "raised"
            /\ UNCHANGED <<structured_questions, part_marks, current_section,
                           section_marks_info, i>>
    /\ UNCHANGED <<documents, documents0, docIdx, lines, current_part, parsed, run,
                   first>>

\* line 105: the section the scan is in exists and has a question.
HasOpenQuestion ==
    /\ HasKey(questionsFb, current_part)
    /\ GetOr(Get(questionsFb, current_part), sectionFb, <<>>) # <<>>

\* line 106: the line is appended to the text of the last question.
AppendToLast(qs, l) ==
    [qs EXCEPT ![Len(qs)].question =
        [@ EXCEPT ![Len(@)] = @ \o l]]

\* lines 31-38, 51-57, 104-108: any other line.
P_Continuation ==
    /\ ParseFrame
    /\ AtLine
    /\ ~part_match(line)
    /\ ~section_match(line)
    /\ ~is_instruction_line(line)
    /\ ~q_match(line)
    /\ structured_questions' =
           IF HasOpenQuestion
           THEN Put(questionsFb, current_part,
                    Put(Get(questionsFb, current_part), sectionFb,
                        AppendToLast(Get(Get(questionsFb, current_part), sectionFb),
                                     line)))
           ELSE questionsFb
    /\ current_section' = sectionFb
    /\ section_marks_info' = marksInfoFb
    /\ i' = iSkip + 1
    /\ UNCHANGED <<documents, documents0, docIdx, lines, current_part, part_marks,
                   ppc, parsed, run, first>>

\* A display name f"{part} - {label}" or f"{part} - Questions ({lo}-{hi}
\* Marks)"; the bare part has the label "".
Name(part, label, lo, hi) == [part |-> part, label |-> label, lo |-> lo, hi |-> hi]

\* lines 116-133: the display name of a part.
part_name(part) ==
    LET ms == GetOr(part_marks, part, {})
    IN  IF ms = {} THEN Name(part, "", 0, 0)
        ELSE IF Cardinality(ms) = 1
        THEN LET mark == CHOOSE m \in ms : TRUE
             IN  IF mark = 1 THEN Name(part, "Descriptive Answers", 0, 0)
                 ELSE IF mark = 2 THEN Name(part, "Short Answer", 0, 0)
                 ELSE IF mark = 5 THEN Name(part, "Descriptive Answers", 0, 0)
                 ELSE IF mark >= 8 THEN Name(part, "Descriptive Answers", 0, 0)
                 ELSE Name(part, "Descriptive Answers", 0, 0)
        ELSE Name(part, "Questions", Min(ms), Max(ms))

\* lines 110-137: the post-pass and the return.
P_Categorize ==
    /\ ParseFrame
    /\ ppc = "post"
    /\ parsed' = [j \in 1..Len(structured_questions) |->
                    [k |-> part_name(structured_questions[j].k),
                     v |-> structured_questions[j].v]]
    /\ ppc' = "returned"
    /\ UNCHANGED <<documents, documents0, docIdx, lines, i, current_part,
                   current_section, structured_questions, section_marks_info,
                   part_marks, run, first>>

\* What a call of the parser came to.
Outcome == [raised |-> ppc = "raised", tree |-> parsed]

\* The caller parses the same list of documents a second time.
P_Again ==
    /\ ParseFrame
    /\ ppc \in {"returned", "raised"}
    /\ run = 1
    /\ run' = 2
    /\ first' = Outcome
    /\ ParseStart
    /\ UNCHANGED <<documents, documents0>>

\* The state at the first call of the parser on `docs`.
ParseInit(docs) ==
    /\ documents = docs
    /\ documents0 = docs
    /\ docIdx = 1
    /\ lines = LinesOf(docs[1])
    /\ i = 1
    /\ current_part = None
    /\ current_section = None
    /\ structured_questions = <<>>
    /\ section_marks_info = <<>>
    /\ part_marks = <<>>
    /\ parsed = <<>>
    /\ ppc = "scan"
    /\ run = 1
    /\ first = <<>>

\* The question papers of the model: up to n lines on one or more pages.
Papers(n) == {SplitPages(flat) : flat \in SeqsUpTo(LineAlphabet \cup {PageBreak}, n)}

InitParse ==
    /\ SessionIdle
    /\ RenderIdle
    /\ CacheIdle
    /\ AnswersIdle
    /\ IngestIdle
    /\ MarksIdle
    /\ \E docs \in Papers(MaxLines) : ParseInit(docs)

NextParse ==
    \/ P_NextDoc
    \/ P_Part
    \/ P_Section
    \/ P_Instruction
    \/ P_Question
    \/ P_Continuation
    \/ P_Categorize

\* One call of parse_question_structure on a question paper.
SpecParse == InitParse /\ [][NextParse]_vars

InitParseTwice ==
    /\ SessionIdle
    /\ RenderIdle
    /\ CacheIdle
    /\ AnswersIdle
    /\ IngestIdle
    /\ MarksIdle
    /\ \E docs \in Papers(MaxLinesTwice) : ParseInit(docs)

NextParseTwice ==
    \/ P_NextDoc
    \/ P_Part
    \/ P_Section
    \/ P_Instruction
    \/ P_Question
    \/ P_Continuation
    \/ P_Categorize
    \/ P_Again

\* Two calls of parse_question_structure on the same list of documents.
SpecParseTwice == InitParseTwice /\ [][NextParseTwice]_vars

(***************************************************************************)
(* Answering loop: modules/answer_generator.py                             *)
(***************************************************************************)

\* parser.extract_options(question_text): the option lines of the text, each
\* as f"{letter.upper()}. {rest}".
extract_options(question_text) ==
    LET opts == SelectSeq(question_text, option_match)
    IN  [j \in 1..Len(opts) |->
            LET k == IF opts[j][1] = "(" THEN 2 ELSE 1
                c == IF At(opts[j], k + 1) = ")" THEN 1 ELSE 0
            IN  <<Upper(opts[j][k]), ".">> \o From(opts[j], k + c + 1)]

\* ---- the inputs of the model ----
\* Two question nodes as the parser makes them: a plain one and a multiple
\* choice one.
QPlain ==
    [number |-> "1", question |-> <<<<"What", "is", "X", "?">>>>, marks |-> 2,
     is_mcq |-> FALSE]

QMcq ==
    [number |-> "2",
     question |-> <<<<"What", "is", "Y", "?">>, <<"Options:">>,
                    <<"(", "a", ")", "foo">>, <<"(", "b", ")", "bar">>>>,
     marks |-> 1, is_mcq |-> TRUE]

\* A tree is written as the sequence of its nodes in document order: "part"
\* opens the next part, "section" the next section of the open part, and a
\* question goes into the open section.
TreeItems == {"part", "section", "plain", "mcq"}

WellFormed(items) ==
    \A j \in 1..Len(items) :
        /\ items[j] # "part" => \E a \in 1..(j - 1) : items[a] = "part"
        /\ items[j] \in {"plain", "mcq"} =>
              \E a \in 1..(j - 1) :
                  /\ items[a] = "section"
                  /\ \A b \in (a + 1)..(j - 1) : items[b] # "part"

RECURSIVE TreeOf(_)
TreeOf(items) ==
    IF items = <<>> THEN <<>>
    ELSE LET t == TreeOf(SubSeq(items, 1, Len(items) - 1))
             it == items[Len(items)]
             np == Len(t)
         IN  IF it = "part"
             THEN Append(t, [k |-> <<"Part", np + 1>>, v |-> <<>>])
             ELSE IF it = "section"
             THEN [t EXCEPT ![np].v =
                      Append(@, [k |-> <<"Section", Len(@) + 1>>, v |-> <<>>])]
             ELSE [t EXCEPT ![np].v[Len(t[np].v)].v =
                      Append(@, IF it = "plain" THEN QPlain ELSE QMcq)]

Trees == {TreeOf(items) : items \in {s \in SeqsUpTo(TreeItems, MaxNodes) : WellFormed(s)}}

\* What the generation service can do on one call: answer with or without
\* source fragments, or fail.
ChainOutcomes ==
    {[raised |-> FALSE, e |-> "", sources |-> <<"fragment">>],
     [raised |-> FALSE, e |-> "", sources |-> <<>>],
     [raised |-> TRUE, e |-> "timeout", sources |-> <<>>]}

\* The text the chain generates for a query.
ChainAnswer(query) == <<"answer to">> \o query[1]

\* f"Error generating answer: {e}"
ErrorMarker(e) == <<"Error generating answer:", e>>

\* A step of the answering loop leaves the other parts alone.
AnswersFrame == UNCHANGED <<cacheVars, parseVars, ingVars, emVars, raVars, ssVars>>

\* The section the loops are at is exhausted (or none is open yet).
SectionDone ==
    IF gaS = 0 THEN TRUE ELSE gaQ = Len(ga_in[gaP].v[gaS].v)

\* The part the loops are at is exhausted (or none is open yet).
PartDone ==
    IF gaP = 0 THEN TRUE ELSE gaS = Len(ga_in[gaP].v) /\ SectionDone

\* The mutated outer loop: a part with no sections gets no entry.
GA_NextPartSkipsEmpty ==
    /\ AnswersFrame
    /\ ga_pc = "run"
    /\ PartDone
    /\ gaP < Len(ga_in)
    /\ gaP' = gaP + 1
    /\ gaS' = 0
    /\ gaQ' = 0
    /\ ga_out' = IF ga_in[gaP + 1].v = <<>> THEN ga_out
                 ELSE Put(ga_out, ga_in[gaP + 1].k, <<>>)
    /\ UNCHANGED <<ga_in, ga_pc, chain_log>>

\* lines 9-10: the outer loop enters the next part.
GA_NextPart ==
    /\ AnswersFrame
    /\ ga_pc = "run"
    /\ PartDone
    /\ gaP < Len(ga_in)
    /\ gaP' = gaP + 1
    /\ gaS' = 0
    /\ gaQ' = 0
    /\ ga_out' = Put(ga_out, ga_in[gaP + 1].k, <<>>)
    /\ UNCHANGED <<ga_in, ga_pc, chain_log>>

\* lines 11-12: the middle loop enters the next section.
GA_NextSection ==
    /\ AnswersFrame
    /\ ga_pc = "run"
    /\ gaP > 0
    /\ SectionDone
    /\ gaS < Len(ga_in[gaP].v)
    /\ gaS' = gaS + 1
    /\ gaQ' = 0
    /\ ga_out' = Put(ga_out, ga_in[gaP].k,
                     Put(Get(ga_out, ga_in[gaP].k), ga_in[gaP].v[gaS + 1].k, <<>>))
    /\ UNCHANGED <<ga_in, ga_pc, gaP, chain_log>>

\* The question the inner loop handles next.
AtQuestion == ga_pc = "run" /\ gaP > 0 /\ gaS > 0 /\ ~SectionDone

\* q of line 14
cur == ga_in[gaP].v[gaS].v[gaQ + 1]

\* lines 18-23: the argument of qa_chain.
ChainInput ==
    [query |-> cur.question, marks |-> cur.marks, is_mcq |-> cur.is_mcq,
     options |-> IF cur.is_mcq THEN extract_options(cur.question) ELSE <<>>]

\* retriever.get_prompt_template(): the input variables of the template, the
\* only places of its text that are filled in.
get_prompt_template == [input_variables |-> {"context", "question"}]

\* The chain of retriever.init_qa_chain on outcome o: the fragments it
\* retrieves are the context, the "query" entry of its input is the question,
\* and the template is filled in from these; the other entries of the input
\* have no place in the template.
PromptSent(o) ==
    LET values == [context |-> o.sources, question |-> ChainInput.query,
                   marks |-> ChainInput.marks, options |-> ChainInput.options]
    IN  [v \in get_prompt_template.input_variables |-> values[v]]

\* One call of qa_chain, as it is logged.
ChainCall(o) == [input |-> ChainInput, prompt |-> PromptSent(o), outcome |-> o]

\* structured_answers[part][section].append(rec)
AppendAnswer(rec) ==
    Put(ga_out, ga_in[gaP].k,
        Put(Get(ga_out, ga_in[gaP].k), ga_in[gaP].v[gaS].k,
            Append(Get(Get(ga_out, ga_in[gaP].k), ga_in[gaP].v[gaS].k), rec)))

\* lines 14-30: the chain answers the question.
GA_AnswerOk ==
    /\ AnswersFrame
    /\ AtQuestion
    /\ \E o \in ChainOutcomes :
          /\ ~o.raised
          /\ chain_log' = Append(chain_log, ChainCall(o))
          /\ ga_out' = AppendAnswer([number |-> cur.number,
                                     question |-> cur.question,
                                     answer |-> ChainAnswer(cur.question),
                                     sources |-> o.sources,
                                     marks |-> cur.marks])
    /\ gaQ' = gaQ + 1
    /\ UNCHANGED <<ga_in, ga_pc, gaP, gaS>>

\* The mutated handler: a failed question is passed over.
GA_AnswerFailSkips ==
    /\ AnswersFrame
    /\ AtQuestion
    /\ \E o \in ChainOutcomes :
          /\ o.raised
          /\ chain_log' = Append(chain_log, ChainCall(o))
    /\ gaQ' = gaQ + 1
    /\ UNCHANGED <<ga_in, ga_out, ga_pc, gaP, gaS>>

\* lines 14-23, 31-38: the chain call raises; the handler records the error
\* marker with no sources.
GA_AnswerFail ==
    /\ AnswersFrame
    /\ AtQuestion
    /\ \E o \in ChainOutcomes :
          /\ o.raised
          /\ chain_log' = Append(chain_log, ChainCall(o))
          /\ ga_out' = AppendAnswer([number |-> cur.number,
                                     question |-> cur.question,
                                     answer |-> ErrorMarker(o.e),
                                     sources |-> <<>>,
                                     marks |-> cur.marks])
    /\ gaQ' = gaQ + 1
    /\ UNCHANGED <<ga_in, ga_pc, gaP, gaS>>

\* line 40: all loops are exhausted.
GA_Return ==
    /\ AnswersFrame
    /\ ga_pc = "run"
    /\ PartDone
    /\ gaP = Len(ga_in)
    /\ ga_pc' = "returned"
    /\ UNCHANGED <<ga_in, ga_out, gaP, gaS, gaQ, chain_log>>

\* generate_answers is called on a tree (line 7).
InitAnswers ==
    /\ SessionIdle
    /\ RenderIdle
    /\ CacheIdle
    /\ ParseIdle
    /\ IngestIdle
    /\ MarksIdle
    /\ ga_in \in Trees
    /\ ga_out = <<>>
    /\ ga_pc = "run"
    /\ gaP = 0
    /\ gaS = 0
    /\ gaQ = 0
    /\ chain_log = <<>>

NextAnswers ==
    \/ GA_NextPart
    \/ GA_NextSection
    \/ GA_AnswerOk
    \/ GA_AnswerFail
    \/ GA_Return

SpecAnswers == InitAnswers /\ [][NextAnswers]_vars

(***************************************************************************)
(* Page extraction: modules/retriever.py, extract_text_data                *)
(*                                                                         *)
(* A page text is the sequence of its characters.                          *)
(***************************************************************************)
Whitespace == {" ", "\n", "\t"}

\* The texts page.get_text("text") returns in the model: nothing, only
\* whitespace, text, and text inside whitespace.
PageTexts ==
    {<<>>, <<" ", "\n">>, <<"a">>, <<" ", "a", "\n">>}

\* str.strip(): leading and trailing whitespace is removed.
RECURSIVE strip(_)
strip(text) ==
    IF text = <<>> THEN <<>>
    ELSE IF Head(text) \in Whitespace THEN strip(Tail(text))
    ELSE IF text[Len(text)] \in Whitespace
         THEN strip(SubSeq(text, 1, Len(text) - 1))
    ELSE text

\* The mutated page test: `if text:`.
KeepsPageIfNonEmpty(text) == text # <<>>

\* line 37: `if text.strip():`
KeepsPage(text) == strip(text) # <<>>

\* line 38: Document(page_content=f"[Page {i}]\n{text}", metadata={"page": i})
Document(n, text) ==
    [page_content |-> <<"[Page ", n, "]", "\n">> \o text,
     metadata |-> [page |-> n]]

\* A step of the extraction leaves the other parts alone.
IngestFrame == UNCHANGED <<cacheVars, parseVars, ansVars, emVars, raVars, ssVars>>

\* lines 31-33: fitz.open raises on bytes that are no PDF.
I_Open ==
    /\ IngestFrame
    /\ ing_pc = "open"
    /\ ing_pc' = IF pdf.readable THEN "loop" ELSE "raised"
    /\ UNCHANGED <<pdf, ing_i, ing_docs>>

\* lines 35-38: the next page, numbered from 1, is kept or passed over.
I_Page ==
    /\ IngestFrame
    /\ ing_pc = "loop"
    /\ ing_i < Len(pdf.pages)
    /\ ing_i' = ing_i + 1
    /\ ing_docs' = IF KeepsPage(pdf.pages[ing_i + 1])
                   THEN Append(ing_docs, Document(ing_i + 1, pdf.pages[ing_i + 1]))
                   ELSE ing_docs
    /\ UNCHANGED <<pdf, ing_pc>>

\* line 40
I_Return ==
    /\ IngestFrame
    /\ ing_pc = "loop"
    /\ ing_i = Len(pdf.pages)
    /\ ing_pc' = "returned"
    /\ UNCHANGED <<pdf, ing_i, ing_docs>>

\* extract_text_data is called on the bytes of a file.
InitIngest ==
    /\ SessionIdle
    /\ RenderIdle
    /\ CacheIdle
    /\ ParseIdle
    /\ AnswersIdle
    /\ MarksIdle
    /\ pdf \in [readable : BOOLEAN, pages : SeqsUpTo(PageTexts, MaxPages)]
    /\ ing_i = 0
    /\ ing_docs = <<>>
    /\ ing_pc = "open"

NextIngest ==
    \/ I_Open
    \/ I_Page
    \/ I_Return

SpecIngest == InitIngest /\ [][NextIngest]_vars

(***************************************************************************)
(* Answer rendering: app.py and modules/utils.py, render_answer            *)
(***************************************************************************)

\* Line numbers are those of app.py; modules/utils.py 13-40 has the same
\* loop, with the formulas sanitized before st.latex.
\*
\* A line of an answer is a sequence of lexemes; "TRIPLE_BACKTICK" stands
\* for the three backticks of a fence.  The lines of the model: a bare
\* fence, an indented fence with a language tag, a display formula, a line
\* with a math control sequence, a prose line and an empty line.
AnswerLines ==
    {<<"TRIPLE_BACKTICK">>, <<" ", "TRIPLE_BACKTICK", "py">>,
     <<"$$", "a", "$$">>, <<"\\frac">>, <<"a">>, <<>>}

\* line 79: line.strip().startswith(three backticks)
IsFence(l) == strip(l) # <<>> /\ Head(strip(l)) = "TRIPLE_BACKTICK"

\* line 89: line.startswith("$$") and line.endswith("$$")
IsDisplayMath(l) == l # <<>> /\ Head(l) = "$$" /\ l[Len(l)] = "$$"

\* line 91: re.search(r"\\frac|\\sum|\\int|\\pi|\\theta|\\epsilon", line)
HasMath(l) ==
    \E j \in 1..Len(l) :
        l[j] \in {"\\frac", "\\sum", "\\int", "\\pi", "\\theta", "\\epsilon"}

\* line 90: line.strip("$$") removes the dollar signs at both ends.
RECURSIVE strip_dollars(_)
strip_dollars(l) ==
    IF l = <<>> THEN <<>>
    ELSE IF Head(l) = "$$" THEN strip_dollars(Tail(l))
    ELSE IF l[Len(l)] = "$$" THEN strip_dollars(SubSeq(l, 1, Len(l) - 1))
    ELSE l

\* lines 77-94: the loop from line k on, with the values of code_block and
\* code_buffer at that line.  The value is the sequence of display calls:
\* st.code, st.latex or st.markdown, the argument, and (src) the lines of the
\* answer the call shows.  "\n".join(code_buffer) is kept as the list of
\* its lines.  Nothing follows the loop.
RECURSIVE RenderFrom(_, _, _, _)
RenderFrom(answer, k, code_block, code_buffer) ==
    IF k > Len(answer)
    THEN <<>>
    ELSE LET l == answer[k]
         IN  IF IsFence(l)
             THEN IF code_block
                  THEN <<[call |-> "code", arg |-> code_buffer, src |-> code_buffer]>>
                       \o RenderFrom(answer, k + 1, FALSE, <<>>)
                  ELSE RenderFrom(answer, k + 1, TRUE, code_buffer)
             ELSE IF code_block
             THEN RenderFrom(answer, k + 1, TRUE, Append(code_buffer, l))
             ELSE IF IsDisplayMath(l)
             THEN <<[call |-> "latex", arg |-> strip_dollars(l), src |-> <<l>>]>>
                  \o RenderFrom(answer, k + 1, FALSE, code_buffer)
             ELSE IF HasMath(l)
             THEN <<[call |-> "latex", arg |-> l, src |-> <<l>>]>>
                  \o RenderFrom(answer, k + 1, FALSE, code_buffer)
             ELSE <<[call |-> "markdown", arg |-> l, src |-> <<l>>]>>
                  \o RenderFrom(answer, k + 1, FALSE, code_buffer)

\* lines 72-76: code_block = False, code_buffer = []
render_answer(answer) == RenderFrom(answer, 1, FALSE, <<>>)

\* A step of the rendering leaves the other parts alone.
RenderFrame ==
    UNCHANGED <<cacheVars, parseVars, ansVars, ingVars, emVars, ssVars>>

\* lines 72-94: the function has made its display calls and returns.
RA_Return ==
    /\ RenderFrame
    /\ ra_pc = "call"
    /\ ra_emitted' = render_answer(ra_answer)
    /\ ra_pc' = "returned"
    /\ UNCHANGED ra_answer

\* render_answer is called on an answer text.
InitRender ==
    /\ SessionIdle
    /\ CacheIdle
    /\ ParseIdle
    /\ AnswersIdle
    /\ IngestIdle
    /\ MarksIdle
    /\ ra_answer \in SeqsUpTo(AnswerLines, MaxAnswerLines)
    /\ ra_emitted = <<>>
    /\ ra_pc = "call"

SpecRender == InitRender /\ [][RA_Return]_vars

(***************************************************************************)
(* App session: app.py, the script from line 166 on                        *)
(***************************************************************************)

\* lines 191-193: extracted_questions of the uploaded question file.  The
\* question files of the model are 1..(MaxQuestions + 1): file f holds
\* MaxQuestions + 1 - f questions that extract_questions_from_text keeps,
\* the last file none.  Questions of different files are different.
extracted_questions(f) == [j \in 1..(MaxQuestions + 1 - f) |-> <<"q", f, j>>]

\* A step of the session leaves the other parts alone.
SessionFrame ==
    UNCHANGED <<cacheVars, parseVars, ansVars, ingVars, emVars, raVars>>

\* The user acts on a widget (uploads, replaces or removes a file, submits a
\* question): Streamlit runs the script again from the top.  lines 166-171:
\* the uploaders return the files now uploaded (0 = None), chat_input
\* returns the submitted question only in the run of its submission
\* (<<>> = None), and setdefault leaves the keys of the session alone.
Rerun(tb, qf, uq) ==
    /\ SessionFrame
    /\ script.pc \in {"start", "done", "raised"}
    /\ reruns < MaxReruns
    /\ reruns' = reruns + 1
    /\ widgets' = [textbook |-> tb, questions |-> qf, user_question |-> uq]
    /\ script' = [pc |-> "vectordb", qa_chain |-> 0, k |-> 0]
    /\ UNCHANGED session_state

\* lines 174-190: the index is loaded or built when a textbook is uploaded
\* and the session holds no "vectordb" yet; load_or_build_faiss returns the
\* index of the fingerprint it was given, or raises.  Then the chain is made
\* on the index of the session; without one the script ends.  With one, the
\* answering loop is entered when a question file is uploaded whose hash is
\* not among the processed ones.
S_Prepare ==
    /\ SessionFrame
    /\ script.pc = "vectordb"
    /\ \E ok \in BOOLEAN :
           LET loads == widgets.textbook # 0 /\ session_state.vectordb = 0
               vdb == IF loads THEN widgets.textbook ELSE session_state.vectordb
               unprocessed ==
                   /\ widgets.questions # 0
                   /\ compute_file_hash(widgets.questions)
                          \notin session_state.processed_question_hashes
           IN  IF loads /\ ~ok
               THEN /\ script' = [script EXCEPT !.pc = "raised"]
                    /\ UNCHANGED session_state
               ELSE /\ session_state' = [session_state EXCEPT !.vectordb = vdb]
                    /\ script' =
                           IF vdb = 0 THEN [script EXCEPT !.pc = "done"]
                           ELSE [script EXCEPT
                                    !.pc = IF unprocessed THEN "loop" ELSE "chat",
                                    !.qa_chain = vdb]
    /\ UNCHANGED <<widgets, reruns>>

\* lines 197-218: one iteration of the answering loop.  The chain is called
\* on the question; its result is appended to chat_history, shown, and
\* marked as rendered.  The call reaches the language model and may raise:
\* nothing catches it, so the run of the script ends there.
S_Answer ==
    /\ SessionFrame
    /\ script.pc = "loop"
    /\ script.k < Len(extracted_questions(widgets.questions))
    /\ \E ok \in BOOLEAN :
           IF ok
           THEN /\ session_state' =
                       [session_state EXCEPT !.chat_history =
                           Append(@, [question |->
                                          extracted_questions(widgets.questions)[script.k + 1],
                                      index |-> script.qa_chain,
                                      rendered |-> TRUE])]
                /\ script' = [script EXCEPT !.k = @ + 1]
           ELSE /\ script' = [script EXCEPT !.pc = "raised"]
                /\ UNCHANGED session_state
    /\ UNCHANGED <<widgets, reruns>>

\* lines 219-221: after the loop (or the warning that nothing was
\* extracted) the hash of the file is added to the processed ones.
S_MarkProcessed ==
    /\ SessionFrame
    /\ script.pc = "loop"
    /\ script.k = Len(extracted_questions(widgets.questions))
    /\ session_state' =
           [session_state EXCEPT !.processed_question_hashes =
               @ \cup {compute_file_hash(widgets.questions)}]
    /\ script' = [script EXCEPT !.pc = "chat"]
    /\ UNCHANGED <<widgets, reruns>>

\* lines 224-247: a submitted question is answered by the chain and appended
\* (the call may raise); then every entry not yet rendered is shown and
\* marked.
S_Chat ==
    /\ SessionFrame
    /\ script.pc = "chat"
    /\ \E ok \in BOOLEAN :
           IF widgets.user_question # <<>> /\ ~ok
           THEN /\ script' = [script EXCEPT !.pc = "raised"]
                /\ UNCHANGED session_state
           ELSE /\ session_state' =
                       [session_state EXCEPT !.chat_history =
                           IF widgets.user_question # <<>>
                           THEN Append(@, [question |-> widgets.user_question,
                                           index |-> script.qa_chain,
                                           rendered |-> TRUE])
                           ELSE @]
                /\ script' = [script EXCEPT !.pc = "done"]
    /\ UNCHANGED <<widgets, reruns>>

\* A browser session is opened: the session state is empty and the script
\* has not run yet.
InitSession ==
    /\ CacheIdle
    /\ ParseIdle
    /\ AnswersIdle
    /\ IngestIdle
    /\ MarksIdle
    /\ RenderIdle
    /\ session_state = [chat_history |-> <<>>,
                        processed_question_hashes |-> {},
                        vectordb |-> 0]
    /\ widgets = [textbook |-> 0, questions |-> 0, user_question |-> <<>>]
    /\ script = [pc |-> "start", qa_chain |-> 0, k |-> 0]
    /\ reruns = 0

NextSession ==
    \/ \E tb \in {0} \cup Docs, qf \in 0..(MaxQuestions + 1), uq \in {<<>>, <<"u">>} :
           Rerun(tb, qf, uq)
    \/ S_Prepare
    \/ S_Answer
    \/ S_MarkProcessed
    \/ S_Chat

SpecSession == InitSession /\ [][NextSession]_vars

(***************************************************************************)
(* Marks heuristic: modules/parser.py, estimate_marks                      *)
(***************************************************************************)

\* The lexemes of the hints of the model.
HintTokens == {"1", "2", "7", "12", "15", "x", "mark", "Marks"}

\* A step of the heuristic leaves the other parts alone.
MarksFrame == UNCHANGED <<cacheVars, parseVars, ansVars, ingVars, raVars, ssVars>>

\* lines 166-178: the function returns its estimate.
EM_Return ==
    /\ MarksFrame
    /\ em_pc = "call"
    /\ em_result' = estimate_marks(em_text)
    /\ em_pc' = "returned"
    /\ UNCHANGED em_text

\* estimate_marks is called on a hint.
InitMarks ==
    /\ SessionIdle
    /\ RenderIdle
    /\ CacheIdle
    /\ ParseIdle
    /\ AnswersIdle
    /\ IngestIdle
    /\ em_text \in SeqsUpTo(HintTokens, MaxHintLen)
    /\ em_result = 0
    /\ em_pc = "call"

NextMarks == EM_Return

SpecMarks == InitMarks /\ [][NextMarks]_vars

(***************************************************************************)
(* Claims about the index cache                                            *)
(***************************************************************************)

\* C1: a call made after a build of the same bytes has completed takes the
\* cache-hit path: it ingests, splits and embeds nothing, writes nothing, and
\* what it returns is the index persisted for those bytes; its load can fail
\* only when two builds of that fingerprint overlapped.
C1_SecondCallHitsCache ==
    \A p \in Procs :
        (afterBuilt[p] /\ pc[p] # "check") =>
            /\ path[p] = "hit"
            /\ did[p] = {}
            /\ wrote[p] = {}
            /\ (pc[p] = "done" => result[p] = file[p])
            /\ (pc[p] = "failed" => raced[file[p]])

C1_Witness ==
    \E p \in Procs :
        /\ afterBuilt[p] /\ pc[p] = "done" /\ path[p] = "hit"
        /\ result[p] = file[p] /\ ~raced[file[p]]

\* No caller is inside the build of document d.
Quiescent(d) == \A p \in Procs : file[p] = d => pc[p] \notin BuildSteps

\* C2: whenever the cache-hit signal holds for a fingerprint and no build of
\* it is running (also after an interrupted build), both persisted artifacts
\* are completely written.
C2_HitSignalImpliesComplete ==
    \A d \in Docs :
        (HitSignal(compute_file_hash(d)) /\ Quiescent(d)) =>
            /\ Complete(get_faiss_paths(compute_file_hash(d))[1])
            /\ Complete(get_faiss_paths(compute_file_hash(d))[2])

\* C3: a cache-miss build that fails during ingestion, splitting or fragment
\* embedding has written nothing; unless another caller wrote meanwhile the
\* next call with the same bytes is again a miss, and if no call ever wrote
\* for the fingerprint none of its artifacts exists.
C3_FailedBuildLeavesCacheUnchanged ==
    \A p \in Procs :
        (pc[p] = "failed" /\ failedAt[p] \in {"extract", "split", "embed"}) =>
            /\ wrote[p] = {}
            /\ (~disturbed[p] => ~HitSignal(hashOf(p)))
            /\ (~touched[file[p]] =>
                    ~exists(index_path(p)) /\ ~exists(store_path(p)))

C3_Witness ==
    \E p \in Procs :
        /\ pc[p] = "failed" /\ failedAt[p] = "embed" /\ path[p] = "miss"
        /\ did[p] = {"ingest", "split"}
        /\ ~exists(index_path(p)) /\ ~exists(store_path(p))

\* C4: at most one build per fingerprint is in progress at any time, and no
\* caller is on the cache-hit path while another caller is still writing the
\* artifacts of that fingerprint.
C4_AtMostOneBuildPerFingerprint ==
    \A p, q \in Procs :
        (p # q /\ file[p] = file[q]) =>
            /\ ~(pc[p] \in BuildSteps /\ pc[q] \in BuildSteps)
            /\ ~(/\ pc[p] \in {"load_store", "load_index"}
                 /\ pc[q] \in {"saving", "open_store", "dump"})

(***************************************************************************)
(* Claims about the parser                                                 *)
(***************************************************************************)

RECURSIVE ConcatAll(_)
ConcatAll(ss) == IF ss = <<>> THEN <<>> ELSE Head(ss) \o ConcatAll(Tail(ss))

\* The leaves of a tree part -> section -> list, in order.
Leaves(t) ==
    ConcatAll([a \in 1..Len(t) |->
                  ConcatAll([b \in 1..Len(t[a].v) |-> t[a].v[b].v])])

\* The question records of a tree part -> section -> list.
AllQuestions(t) ==
    UNION {UNION {{t[a].v[b].v[c] : c \in 1..Len(t[a].v[b].v)} :
                  b \in 1..Len(t[a].v)} :
           a \in 1..Len(t)}

\* The normalized lines of the whole input, page after page.
RECURSIVE AllLines(_)
AllLines(docs) ==
    IF docs = <<>> THEN <<>> ELSE LinesOf(Head(docs)) \o AllLines(Tail(docs))

\* A line that starts a question when the scan reaches it.
IsQuestionLine(l) ==
    ~part_match(l) /\ ~section_match(l) /\ ~is_instruction_line(l) /\ q_match(l)

\* C6: parse_question_structure never raises, and a paper with question lines
\* but no PART heading parses into a tree with one implicit part holding one
\* section that holds the detected questions.
C6_ParseNeverRaises ==
    /\ ppc # "raised"
    /\ (/\ ppc = "returned"
        /\ \A j \in 1..Len(AllLines(documents0)) :
              ~part_match(AllLines(documents0)[j])
        /\ \E j \in 1..Len(AllLines(documents0)) :
              IsQuestionLine(AllLines(documents0)[j]))
       => /\ Len(parsed) = 1
          /\ Len(parsed[1].v) = 1
          /\ parsed[1].v[1].v # <<>>

\* The paper is one page "PART ..", "SECTION .. (<count> x <marks> ..)" and
\* then lines that are no headings and hold no multiplier.
HintOnSectionLine(ls) ==
    /\ Len(documents0) = 1
    /\ Len(ls) >= 3
    /\ part_match(ls[1])
    /\ ~part_match(ls[2]) /\ section_match(ls[2]) /\ HasMultiplier(ls[2])
    /\ \A j \in 3..Len(ls) :
          ~part_match(ls[j]) /\ ~section_match(ls[j]) /\ ~HasMultiplier(ls[j])

\* C7: when the SECTION heading line itself carries the marks hint, every
\* question of that section has the per-item value of the hint as its marks.
C7_HintOnSectionLineSetsMarks ==
    (ppc = "returned" /\ HintOnSectionLine(AllLines(documents0))) =>
        \A q \in AllQuestions(parsed) :
            q.marks = estimate_marks(AllLines(documents0)[2])

\* Positions of a lettered option "(a)" .. "(d)" inside a question line.
InlineOptions(text) ==
    {j \in 1..Len(text) :
        /\ j + 2 <= Len(text)
        /\ text[j] = "(" /\ text[j + 1] \in OptionLetters /\ text[j + 2] = ")"}

\* C8: a question whose lettered options stand on the question line itself is
\* multiple choice; a question with no options at all is not.
C8_InlineOptionsAreMcq ==
    ppc = "returned" =>
        \A q \in AllQuestions(parsed) :
            /\ InlineOptions(q.question[1]) # {} => q.is_mcq
            /\ (InlineOptions(q.question[1]) = {} /\ Len(q.question) = 1)
                   => ~q.is_mcq

\* C9: every question node has a mark value of at least 1.
C9_MarksPositive ==
    \A q \in AllQuestions(structured_questions) : q.marks >= 1

\* C10: the second call of the parser on the same list of documents comes to
\* the same outcome as the first (the same tree, or the same failure), and
\* the list of documents is never changed.
C10_ParseTwiceSame ==
    /\ documents = documents0
    /\ (run = 2 /\ ppc \in {"returned", "raised"}) => Outcome = first

C10_Witness ==
    /\ run = 2 /\ ppc = "returned"
    /\ AllQuestions(parsed) # {}
    /\ \E k \in 1..Len(documents) : LinesOf(documents[k]) # documents[k]
    /\ first = Outcome

\* A line the paper sets as a SECTION heading.
IsSectionHeading(l) == ~part_match(l) /\ section_match(l)

\* The lines of the paper before the line the scan is at, page after page.
Before == AllLines(SubSeq(documents, 1, docIdx - 1)) \o SubSeq(lines, 1, i - 1)

\* The position in Before of the last PART heading, 0 if there is none.
LastPartPos ==
    IF \E j \in 1..Len(Before) : part_match(Before[j])
    THEN Max({j \in 1..Len(Before) : part_match(Before[j])})
    ELSE 0

\* The position in Before of the last SECTION heading after the last PART
\* heading, 0 if there is none.
LastSectionPos ==
    IF \E j \in (LastPartPos + 1)..Len(Before) : IsSectionHeading(Before[j])
    THEN Max({j \in (LastPartPos + 1)..Len(Before) : IsSectionHeading(Before[j])})
    ELSE 0

\* The part and the section the paper puts the current line under.
PaperPart == <<"Part", part_label(Before[LastPartPos])>>

PaperSection ==
    IF LastSectionPos = 0 THEN General
    ELSE <<"Section", section_num(Before[LastSectionPos])>>

\* The list of part p, section s of tree t; empty if there is none.
ListAt(t, p, s) == GetOr(GetOr(t, p, <<>>), s, <<>>)

\* C12: a step over a PART heading leaves the current section unset, and a
\* step that adds a question adds it to the list of the part of the last PART
\* heading before it and, there, of the last SECTION heading since that PART
\* heading, or of "General" if there is no such SECTION heading.
C12_QuestionUnderLastHeadings ==
    [][/\ (AtLine /\ part_match(line)) => current_section' = None
       /\ (AtLine /\ Len(Leaves(structured_questions')) >
                         Len(Leaves(structured_questions)))
             => /\ LastPartPos # 0
                /\ Len(ListAt(structured_questions', PaperPart, PaperSection)) =
                       Len(ListAt(structured_questions, PaperPart, PaperSection)) + 1
      ]_vars

\* The line directly before the current one is a SECTION heading (the text of
\* the pages is taken as one stream of lines).
DirectlyAfterSectionHeading ==
    Before # <<>> /\ IsSectionHeading(Before[Len(Before)])

\* The lines of the paper from the line the scan is at.
FromHere ==
    SubSeq(lines, i, Len(lines))
        \o AllLines(SubSeq(documents, docIdx + 1, Len(documents)))

\* The marks hint of the section the paper puts the current line under: the
\* line directly after its SECTION heading if that line encodes
\* "<count> x <marks>", no hint (<<>>) otherwise.
PaperHint ==
    LET all == Before \o FromHere
    IN  IF /\ LastSectionPos # 0
           /\ LastSectionPos + 1 <= Len(all)
           /\ HasMultiplier(all[LastSectionPos + 1])
        THEN all[LastSectionPos + 1]
        ELSE <<>>

\* <marks> of a hint "<count> x <marks>".
HintMarks(h) == int(h[Min(MultiplierAt(h)) + 2])

\* C13: a line that directly follows a SECTION heading and encodes
\* "<count> x <marks>" is consumed (the scan never handles it as a line of its
\* own), and a question is added with the <marks> of the hint of its section
\* as its marks, with marks 1 when the section has no hint.
C13_HintAfterSectionHeading ==
    [][/\ ~(AtLine /\ DirectlyAfterSectionHeading /\ HasMultiplier(line))
       /\ (AtLine /\ Len(Leaves(structured_questions')) >
                         Len(Leaves(structured_questions)))
             => \A a \in 1..Len(structured_questions') :
                   \A b \in 1..Len(structured_questions'[a].v) :
                       Len(structured_questions'[a].v[b].v) >
                           Len(ListAt(structured_questions,
                                      structured_questions'[a].k,
                                      structured_questions'[a].v[b].k))
                       => structured_questions'[a].v[b].v[
                              Len(structured_questions'[a].v[b].v)].marks =
                                 IF PaperHint = <<>> THEN 1
                                 ELSE HintMarks(PaperHint)
      ]_vars

\* Positions of an explicit phrase "<n> mark" or "<n> marks" in a hint.
MarkPhraseAt(h) ==
    {j \in 1..Len(h) :
        /\ j + 1 <= Len(h)
        /\ IsDigits(h[j]) /\ int(h[j]) >= 1
        /\ Lower(h[j + 1]) \in {"mark", "marks"}}

\* C14: estimate_marks returns <marks> of a "<count> x <marks>" pattern in
\* the hint; with no such pattern, the n of an explicit "<n> mark(s)" phrase,
\* whatever positive n is; with neither, 1.
C14_EstimateMarksReadsHint ==
    em_pc = "returned" =>
        IF HasMultiplier(em_text)
        THEN em_result = HintMarks(em_text)
        ELSE IF MarkPhraseAt(em_text) # {}
        THEN em_result \in {int(em_text[j]) : j \in MarkPhraseAt(em_text)}
        ELSE em_result = 1

\* The mark values of the questions of part a of the returned tree.
MarksOfPart(a) ==
    UNION {{parsed[a].v[b].v[c].marks : c \in 1..Len(parsed[a].v[b].v)} :
           b \in 1..Len(parsed[a].v)}

\* C15: in the returned tree a part whose questions all have the mark value 1
\* is named "<part> - Short Answer", a part whose questions share another
\* value "<part> - Descriptive Answers", and a part with several values
\* "<part> - Questions (<min>-<max> Marks)".
C15_PartLabelFromMarks ==
    ppc = "returned" =>
        \A a \in 1..Len(parsed) :
            MarksOfPart(a) # {} =>
                IF Cardinality(MarksOfPart(a)) = 1
                THEN parsed[a].k.label =
                         IF MarksOfPart(a) = {1} THEN "Short Answer"
                         ELSE "Descriptive Answers"
                ELSE /\ parsed[a].k.label = "Questions"
                     /\ parsed[a].k.lo = Min(MarksOfPart(a))
                     /\ parsed[a].k.hi = Max(MarksOfPart(a))

\* The number of option lines that directly follow the first line of ls.
RECURSIVE OptionLinesAfter(_, _)
OptionLinesAfter(ls, k) ==
    IF k + 1 <= Len(ls) /\ option_match(ls[k + 1])
    THEN 1 + OptionLinesAfter(ls, k + 1)
    ELSE 0

\* C16: a step that adds a question takes the maximal run of option lines
\* directly after the question line as its options: the question is multiple
\* choice exactly when the run is not empty, its text ends with the lines of
\* the run in their order (after the line that starts the options block), and
\* the scan goes on behind the run, so that none of its lines is handled as a
\* line of its own.
C16_OptionRunConsumed ==
    [][(AtLine /\ Len(Leaves(structured_questions')) >
                      Len(Leaves(structured_questions)))
          => LET nOpt == OptionLinesAfter(FromHere, 1)
             IN  /\ Len(Before') >= Len(Before) + 1 + nOpt
                 /\ \A a \in 1..Len(structured_questions') :
                       \A b \in 1..Len(structured_questions'[a].v) :
                          LET new == structured_questions'[a].v[b].v
                              old == ListAt(structured_questions,
                                            structured_questions'[a].k,
                                            structured_questions'[a].v[b].k)
                              txt == new[Len(new)].question
                          IN  Len(new) > Len(old) =>
                                 /\ new[Len(new)].is_mcq = (nOpt > 0)
                                 /\ Len(txt) = IF nOpt > 0 THEN nOpt + 2 ELSE 1
                                 /\ nOpt > 0 =>
                                       SubSeq(txt, 3, Len(txt)) =
                                           SubSeq(FromHere, 2, nOpt + 1)
      ]_vars

\* C18: no step of the scan removes a question from the tree: every list of
\* a part and section keeps its questions, in place, under the same part and
\* section (their text may grow by continuation lines), and the returned tree
\* holds the questions of the scan.
C18_NoQuestionLost ==
    [][/\ ppc = "scan" =>
             \A a \in 1..Len(structured_questions) :
                 \A b \in 1..Len(structured_questions[a].v) :
                     LET old == structured_questions[a].v[b].v
                         new == ListAt(structured_questions',
                                       structured_questions[a].k,
                                       structured_questions[a].v[b].k)
                     IN  /\ Len(new) >= Len(old)
                         /\ \A c \in 1..Len(old) : new[c].number = old[c].number
       /\ ppc' = "returned" => Leaves(parsed') = Leaves(structured_questions)
      ]_vars

\* The step passes over the line after the current one, which encodes
\* "<count> x <marks>" and is no option line of the current question line.
PassesOverMarksLine ==
    /\ AtLine
    /\ i + 1 <= Len(lines)
    /\ HasMultiplier(lines[i + 1])
    /\ ~(IsQuestionLine(line) /\ option_match(lines[i + 1]))
    /\ docIdx' = docIdx
    /\ i' > i + 1

\* C19: the scan passes over a line that encodes "<count> x <marks>" only
\* when the line directly before it is a SECTION heading; after any other
\* line the scan goes on to it and handles it as content.
C19_MarksLineConsumedOnlyAfterSection ==
    [][PassesOverMarksLine => IsSectionHeading(line)]_vars

(***************************************************************************)
(* Claims about the answering loop                                         *)
(***************************************************************************)

\* C5: generate_answers never raises; every question handled so far has its
\* own record, in order: the error marker with no sources if its chain call
\* failed, the chain's answer and sources otherwise; and when the function
\* returns no question of the tree is missing.
C5_ChainFailuresAreIsolated ==
    /\ ga_pc # "raised"
    /\ Len(Leaves(ga_out)) = Len(chain_log)
    /\ \A k \in 1..Len(Leaves(ga_out)) :
          /\ Leaves(ga_out)[k].number = Leaves(ga_in)[k].number
          /\ Leaves(ga_out)[k].question = Leaves(ga_in)[k].question
          /\ IF chain_log[k].outcome.raised
             THEN /\ Leaves(ga_out)[k].answer = ErrorMarker(chain_log[k].outcome.e)
                  /\ Leaves(ga_out)[k].sources = <<>>
             ELSE /\ Leaves(ga_out)[k].answer = ChainAnswer(Leaves(ga_in)[k].question)
                  /\ Leaves(ga_out)[k].sources = chain_log[k].outcome.sources
    /\ ga_pc = "returned" => Len(Leaves(ga_out)) = Len(Leaves(ga_in))

C5_Witness ==
    /\ ga_pc = "returned"
    /\ \E j, k \in 1..Len(chain_log) :
          /\ j < k
          /\ chain_log[j].outcome.raised
          /\ ~chain_log[k].outcome.raised
          /\ Leaves(ga_out)[j].answer = ErrorMarker("timeout")
          /\ Leaves(ga_out)[k].answer = ChainAnswer(Leaves(ga_in)[k].question)

\* The lines of a question text that are option lines.
OptionLinesOf(text) == SelectSeq(text, option_match)

\* C17: the prompt of every chain call holds the retrieved context and the
\* text of the question, its mark value, and, for a multiple choice question,
\* its option text (as an entry of its own or as the option lines of the
\* question text).
C17_PromptCarriesMarksAndOptions ==
    \A k \in 1..Len(chain_log) :
        LET sent == chain_log[k].prompt
            asked == Leaves(ga_in)[k]
        IN  /\ "context" \in DOMAIN sent
            /\ sent.context = chain_log[k].outcome.sources
            /\ "question" \in DOMAIN sent
            /\ sent.question = asked.question
            /\ asked.is_mcq =>
                  \/ "options" \in DOMAIN sent
                  \/ OptionLinesOf(sent.question) # <<>>
            /\ "marks" \in DOMAIN sent
            /\ sent.marks = asked.marks

\* C20: the answers have the shape of the question tree: the parts entered so
\* far with their keys, in each the sections entered so far with their keys,
\* in each section one record per question handled so far, with the number,
\* text and marks of that question; one chain call was made per record; and
\* when the function returns nothing of the tree is missing.
C20_AnswersKeepTreeShape ==
    /\ Len(ga_out) = gaP
    /\ \A a \in 1..Len(ga_out) :
          /\ ga_out[a].k = ga_in[a].k
          /\ Len(ga_out[a].v) = IF a < gaP THEN Len(ga_in[a].v) ELSE gaS
          /\ \A b \in 1..Len(ga_out[a].v) :
                /\ ga_out[a].v[b].k = ga_in[a].v[b].k
                /\ Len(ga_out[a].v[b].v) =
                       IF a < gaP \/ b < gaS THEN Len(ga_in[a].v[b].v) ELSE gaQ
                /\ \A c \in 1..Len(ga_out[a].v[b].v) :
                      /\ ga_out[a].v[b].v[c].number = ga_in[a].v[b].v[c].number
                      /\ ga_out[a].v[b].v[c].question = ga_in[a].v[b].v[c].question
                      /\ ga_out[a].v[b].v[c].marks = ga_in[a].v[b].v[c].marks
    /\ Len(chain_log) = Len(Leaves(ga_out))
    /\ \A k \in 1..Len(chain_log) :
          chain_log[k].input.query = Leaves(ga_in)[k].question
    /\ ga_pc = "returned" =>
          /\ gaP = Len(ga_in)
          /\ \A a \in 1..Len(ga_in) :
                /\ Len(ga_out[a].v) = Len(ga_in[a].v)
                /\ \A b \in 1..Len(ga_in[a].v) :
                      Len(ga_out[a].v[b].v) = Len(ga_in[a].v[b].v)
          /\ Len(chain_log) = Len(Leaves(ga_in))

C20_Witness ==
    /\ ga_pc = "returned"
    /\ Len(ga_in) = 2
    /\ Len(ga_in[1].v) = 2
    /\ ga_in[1].v[1].v = <<>>
    /\ Len(ga_in[1].v[2].v) = 2
    /\ ga_in[2].v = <<>>
    /\ Len(ga_out) = 2
    /\ Len(ga_out[1].v[2].v) = 2
    /\ chain_log[1].outcome.raised
    /\ ~chain_log[2].outcome.raised

(***************************************************************************)
(* Claims about the page extraction                                        *)
(***************************************************************************)

\* A page with no text but whitespace.
BlankPage(text) == \A j \in 1..Len(text) : text[j] \in Whitespace

\* The numbers of the first n pages that are not blank, in order.
RECURSIVE NonBlankUpTo(_)
NonBlankUpTo(n) ==
    IF n = 0 THEN <<>>
    ELSE IF BlankPage(pdf.pages[n]) THEN NonBlankUpTo(n - 1)
    ELSE Append(NonBlankUpTo(n - 1), n)

\* C11: extract_text_data emits exactly one unit per enumerated page that is
\* not blank and none for a blank page; the units carry the 1-based numbers of
\* their pages, strictly increasing; no unit has empty content; and the
\* function returns only after the last page.
C11_OneUnitPerNonBlankPage ==
    /\ [k \in 1..Len(ing_docs) |-> ing_docs[k].metadata.page] = NonBlankUpTo(ing_i)
    /\ \A k \in 1..Len(ing_docs) :
          /\ ing_docs[k].metadata.page >= 1
          /\ k > 1 => ing_docs[k - 1].metadata.page < ing_docs[k].metadata.page
          /\ ing_docs[k].page_content # <<>>
          /\ ing_docs[k].page_content =
                 <<"[Page ", ing_docs[k].metadata.page, "]", "\n">>
                     \o pdf.pages[ing_docs[k].metadata.page]
          /\ ~BlankPage(pdf.pages[ing_docs[k].metadata.page])
    /\ ing_pc = "returned" => ing_i = Len(pdf.pages)

C11_Witness ==
    /\ ing_pc = "returned"
    /\ Len(pdf.pages) = 3
    /\ pdf.pages[1] = <<"a">> /\ pdf.pages[2] = <<" ", "\n">>
    /\ ~BlankPage(pdf.pages[3])
    /\ Len(ing_docs) = 2
    /\ ing_docs[2].metadata.page = 3

(***************************************************************************)
(* Claims about the answer rendering                                       *)
(***************************************************************************)

\* The lines of the answer that the display calls show, in the order of the
\* calls.
ShownLines == ConcatAll([j \in 1..Len(ra_emitted) |-> ra_emitted[j].src])

\* The lines of the answer that are no fence markers, in order.
ContentLines == SelectSeq(ra_answer, LAMBDA l : ~IsFence(l))

\* The fence markers of the answer before line k.
FencesBefore(k) == Cardinality({j \in 1..(k - 1) : IsFence(ra_answer[j])})

\* Lines k and m are an opening fence and its closing fence.
FencePair(k, m) ==
    /\ k < m
    /\ IsFence(ra_answer[k]) /\ IsFence(ra_answer[m])
    /\ FencesBefore(k) % 2 = 0
    /\ \A j \in (k + 1)..(m - 1) : ~IsFence(ra_answer[j])

\* C23: render_answer loses no content.  When it has returned, the lines of
\* the answer that are no fence markers are shown by the display calls, each
\* once and in the original order, and the lines between an opening fence and
\* its closing fence are shown together by one st.code call; also when the
\* answer ends inside an open fenced block.
C23_NoLineLost ==
    ra_pc = "returned" =>
        /\ ShownLines = ContentLines
        /\ \A k, m \in 1..Len(ra_answer) :
               FencePair(k, m) =>
                   \E j \in 1..Len(ra_emitted) :
                       /\ ra_emitted[j].call = "code"
                       /\ ra_emitted[j].src = SubSeq(ra_answer, k + 1, m - 1)

(***************************************************************************)
(* Claims about the app session                                            *)
(***************************************************************************)

\* The entries of chat_history that answer question q.
EntriesFor(q) ==
    {n \in 1..Len(session_state.chat_history) :
        session_state.chat_history[n].question = q}

\* C21: across the reruns of the script in one session, every question file
\* contributes its answers to chat_history at most once: no extracted
\* question of a file is answered and appended twice, also when a chain call
\* raised inside the answering loop of an earlier run.
C21_FileAnsweredAtMostOnce ==
    \A f \in 1..(MaxQuestions + 1) :
        \A j \in 1..Len(extracted_questions(f)) :
            Cardinality(EntriesFor(extracted_questions(f)[j])) <= 1

\* A step answers a query: the chain was called and its result appended.
AnswersQuery ==
    Len(session_state'.chat_history) = Len(session_state.chat_history) + 1

\* C22: the index used to answer a query belongs to the fingerprint of the
\* textbook uploaded at that time: once the user has replaced the textbook
\* by a document of other content, queries are answered from the index of
\* the new document, never from that of the earlier one.
C22_AnswersFromCurrentTextbook ==
    [][(AnswersQuery /\ widgets.textbook # 0) =>
           compute_file_hash(
               session_state'.chat_history[Len(session_state'.chat_history)].index)
               = compute_file_hash(widgets.textbook)]_vars

====
